---- MODULE Spec2Model ----
(***************************************************************************)
(* MACD parameter optimizer (src/app.py): one run of the Streamlit script  *)
(* from the parameter widgets to the displayed top-10 table.               *)
(*                                                                         *)
(* Conventions.                                                            *)
(*  - Row labels are 0-based as in the reset DataFrame index.              *)
(*  - A pandas float cell is a set of at most one integer: {} is NaN and   *)
(*    {v} is the number v, so that every comparison with NaN is false.     *)
(*  - ta.trend.ema_indicator and Series.ewm(...).mean() are library calls; *)
(*    their results are drawn from a small value domain at each call.      *)
(*  - Python floats that the script compares or rounds (accuracy) are      *)
(*    IEEE-754 doubles, computed here bit-exactly on 75-bit naturals.      *)
(*  - Prices and target_pct are drawn from values on which the double      *)
(*    arithmetic of target_price and pct_return is exact.                  *)
(*  - The table is numeric, so no statement of the loop body raises and    *)
(*    the `except Exception` branch (lines 240-241) is never taken.        *)
(*  - exits, attempted and macd_computed are history variables; and        *)
(*    cancel_requested is the signal of the design document, which no      *)
(*    statement of the script reads.                                       *)
(***************************************************************************)
EXTENDS Integers, Sequences, FiniteSets, TLC

VARIABLES
    data,               \* the sorted price table: [Date, Close], rows 0..len-1
    inp,                \* the number_input values
    pc,                 \* position of the script run
    ui,                 \* messages and widgets shown so far
    total_combinations,
    fast, slow, signal, \* the triple the nested loops reach next
    combos_checked,
    progress,           \* progress bar and the two counters' texts
    df,                 \* MACD, Signal, Crossover columns of the last copy
    entries, total_trades, hits, trades_records, accuracy,
    exits,              \* history: <<entry, exit>> row labels per trade record
    results, trades_dict,
    top10, top10_trades_dict,
    attempted,          \* history: the triples the inner loop body ran for
    macd_computed,      \* history: the (fast, slow) of each MACD computation
    cancel_requested    \* the caller's cancellation signal

vars == <<data, inp, pc, ui, total_combinations, fast, slow, signal,
          combos_checked, progress, df, entries, total_trades, hits,
          trades_records, accuracy, exits, results, trades_dict, top10,
          top10_trades_dict, attempted, macd_computed, cancel_requested>>

Min(a, b) == IF a < b THEN a ELSE b

----------------------------------------------------------------------------
(* Naturals of 5 limbs of 15 bits, least significant limb first.           *)

Limb == 2^15

BigZero == <<0, 0, 0, 0, 0>>

BigPow2(s) == [i \in DOMAIN BigZero |-> IF i = (s \div 15) + 1 THEN 2^(s % 15) ELSE 0]

RECURSIVE MulCarry(_, _, _, _)
MulCarry(x, c, i, carry) ==
    IF i > Len(x) THEN <<>>
    ELSE LET p == x[i] * c + carry
         IN  <<p % Limb>> \o MulCarry(x, c, i + 1, p \div Limb)

BigMulSmall(x, c) == MulCarry(x, c, 1, 0)

BigInc(x) == MulCarry(x, 1, 1, 1)

RECURSIVE DivFrom(_, _, _, _)
DivFrom(x, c, i, rem) ==
    IF i = 0 THEN [q |-> <<>>, r |-> rem]
    ELSE LET cur  == rem * Limb + x[i]
             rest == DivFrom(x, c, i - 1, cur % c)
         IN  [q |-> Append(rest.q, cur \div c), r |-> rest.r]

BigDivSmall(x, c) == DivFrom(x, c, Len(x), 0)

RECURSIVE CmpFrom(_, _, _)
CmpFrom(x, y, i) ==
    IF i = 0 THEN 0
    ELSE IF x[i] > y[i] THEN 1
    ELSE IF x[i] < y[i] THEN -1
    ELSE CmpFrom(x, y, i - 1)

BigCmp(x, y) == CmpFrom(x, y, Len(x))

BigOdd(x) == x[1] % 2 = 1

\* x / c rounded to the nearest natural, ties to even (c a small natural).
BigDivRound(x, c) ==
    LET d == BigDivSmall(x, c)
    IN  IF 2 * d.r > c \/ (2 * d.r = c /\ BigOdd(d.q)) THEN BigInc(d.q) ELSE d.q

----------------------------------------------------------------------------
(* Doubles in [0, 128): the value of [m, s] is m / 2^s, with m either 0 or *)
(* a 53-bit significand in [2^52, 2^53].                                   *)

RECURSIVE NormShift(_, _, _)
NormShift(h, t, k) == IF h * 2^k >= t THEN k ELSE NormShift(h, t, k + 1)

\* hits / total_trades for naturals 0 <= h <= t, t >= 1 (Python true division).
TrueDiv(h, t) ==
    IF h = 0 THEN [m |-> BigZero, s |-> 0]
    ELSE LET k == NormShift(h, t, 0)
         IN  [m |-> BigDivRound(BigMulSmall(BigPow2(k + 52), h), t), s |-> k + 52]

\* x * 100 for a double x in [0, 1].
Mul100(x) ==
    IF x.m = BigZero THEN x
    ELSE LET p == BigMulSmall(x.m, 100)
             d == IF BigCmp(p, BigPow2(59)) < 0 THEN 6 ELSE 7
         IN  [m |-> BigDivRound(p, 2^d), s |-> x.s - d]

\* a >= n for a double a and a natural n <= 100.
FloatGeqInt(a, n) == BigCmp(a.m, BigMulSmall(BigPow2(a.s), n)) >= 0

\* floor(x / 2^s) for x < 2^(s + 15).
BigShr(x, s) ==
    LET dropped == [i \in DOMAIN x |-> IF i + (s \div 15) <= Len(x)
                                       THEN x[i + (s \div 15)] ELSE 0]
    IN  BigDivSmall(dropped, 2^(s % 15)).q[1]

\* Round2 cutting the third decimal off instead of rounding
Truncate2(a) == BigShr(BigMulSmall(a.m, 100), a.s)

\* round(a, 2) in hundredths: the double's exact value, ties to even.
Round2(a) ==
    LET n     == BigMulSmall(a.m, 100)
        f     == BigShr(n, a.s)
        twice == BigMulSmall(n, 2)
        mid   == BigMulSmall(BigPow2(a.s), 2 * f + 1)
        c     == BigCmp(twice, mid)
    IN  IF c > 0 \/ (c = 0 /\ f % 2 = 1) THEN f + 1 ELSE f

----------------------------------------------------------------------------
(* Widget limits (st.number_input min and max).                            *)

FastLo == 2
FastHi == 50
SlowLo == 10
SlowHi == 100
SignalLo == 2
SignalHi == 30
TargetLo == 1
TargetHi == 100
TradesLo == 1
TradesHi == 100
AccuracyLo == 1
AccuracyHi == 100
TopN == 10

(* Bounds of the explored inputs.                                          *)

MaxBars == 4
CrossBars == 3
MaxTrades == 50

----------------------------------------------------------------------------
(* Pure parts of the script.                                               *)

Bars(d) == DOMAIN d.Close

len(d) == Cardinality(Bars(d))

\* range(lo, hi + 1) as the sequence of its values
range(lo, hi) == [i \in 1..(IF hi >= lo THEN hi - lo + 1 ELSE 0) |-> lo + i - 1]

fast_range(p) == range(p.fast_min, p.fast_max)

slow_range(p) == range(p.slow_min, p.slow_max)

signal_range(p) == range(p.signal_min, p.signal_max)

RECURSIVE SumSeq(_)
SumSeq(s) == IF s = <<>> THEN 0 ELSE s[1] + SumSeq(Tail(s))

\* the two estimation loops: len(signal_range) for every fast < slow
CountCombinations(p) ==
    SumSeq([i \in DOMAIN fast_range(p) |->
        SumSeq([j \in DOMAIN slow_range(p) |->
            IF fast_range(p)[i] < slow_range(p)[j]
            THEN Len(signal_range(p)) ELSE 0])])

\* avg_time_per_combination = 0.1: the unit of the estimate shown
EstimateUnit(total) ==
    IF total < 600 THEN "seconds" ELSE IF total < 36000 THEN "minutes" ELSE "hours"

NaN == {}

Lt(a, b) == \E x \in a, y \in b : x < y

\* Gt with >= for >
GtOrEqual(a, b) == \E x \in a, y \in b : x >= y

Gt(a, b) == \E x \in a, y \in b : x > y

\* Series.shift(1): row i takes row i - 1, row 0 takes NaN
shift(s) == [i \in DOMAIN s |-> IF i = 0 THEN NaN ELSE s[i - 1]]

Crossover(macd, sig) ==
    [i \in DOMAIN macd |-> Lt(shift(macd)[i], shift(sig)[i]) /\ Gt(macd[i], sig[i])]

\* the labels of the rows a boolean mask keeps, in row order
RECURSIVE MaskIndex(_, _, _)
MaskIndex(mask, i, n) ==
    IF i >= n THEN <<>>
    ELSE (IF mask[i] THEN <<i>> ELSE <<>>) \o MaskIndex(mask, i + 1, n)

CrossoverIndex(cross) == MaskIndex(cross, 0, Cardinality(DOMAIN cross))

\* close >= entry_price * (1 + target_pct / 100)
TargetReached(close, entry_price, target_pct) ==
    close * 100 >= entry_price * (100 + target_pct)

\* loc with the end excluded, as a positional slice would
loc_exclusive(d, a, b) == [i \in 1..(IF b > a THEN b - a ELSE 0) |-> a + i - 1]

\* df.loc[a:b]: the labels a..b that exist, both ends included
loc(d, a, b) == [i \in 1..(IF b >= a THEN b - a + 1 ELSE 0) |-> a + i - 1]

\* n / d rounded to the nearest integer, ties to even (d > 0)
RoundHalfEven(n, d) ==
    LET f == IF n >= 0 THEN n \div d ELSE -((-n + d - 1) \div d)
        r == n - f * d
    IN  IF 2 * r > d \/ (2 * r = d /\ f % 2 = 1) THEN f + 1 ELSE f

\* round(((exit_price - entry_price) / entry_price) * 100, 2), in hundredths;
\* a zero entry price gives numpy's inf, -inf or nan
PctReturn(entry_price, exit_price) ==
    IF entry_price = 0
    THEN [kind |-> IF exit_price > 0 THEN "inf"
                   ELSE IF exit_price < 0 THEN "-inf" ELSE "nan",
          value |-> 0]
    ELSE [kind |-> "finite",
          value |-> IF entry_price > 0
                    THEN RoundHalfEven(10000 * (exit_price - entry_price), entry_price)
                    ELSE RoundHalfEven(10000 * (entry_price - exit_price), -entry_price)]

\* the body of `for entry in entries` for one entry
SimulateTrade(d, p, entry) ==
    LET entry_date   == d.Date[entry]
        entry_price  == d.Close[entry]
        last_idx     == Min(entry + p.max_days, len(d) - 1)
        subset       == loc(d, entry + 1, last_idx)
        IsHit(j)     == TargetReached(d.Close[j], entry_price, p.target_pct)
        hit_rows     == SelectSeq(subset, IsHit)
        hit          == hit_rows # <<>>
        exit         == IF hit THEN hit_rows[1]
                        ELSE IF subset # <<>> THEN subset[Len(subset)]
                        ELSE entry
        exit_date    == d.Date[exit]
        exit_price   == d.Close[exit]
    IN  [record |-> [entry_date  |-> entry_date,
                     entry_price |-> entry_price,
                     exit_date   |-> exit_date,
                     exit_price  |-> exit_price,
                     days_held   |-> exit_date - entry_date,
                     pct_return  |-> PctReturn(entry_price, exit_price),
                     target_hit  |-> hit],
         exit   |-> exit]

\* the whole `for entry in entries` loop, from trade i on
RECURSIVE TradeLoop(_, _, _, _, _)
TradeLoop(d, p, ents, i, acc) ==
    IF i > Len(ents) THEN acc
    ELSE LET t == SimulateTrade(d, p, ents[i])
         IN  TradeLoop(d, p, ents, i + 1,
                 [hits           |-> IF t.record.target_hit THEN acc.hits + 1 ELSE acc.hits,
                  trades_records |-> Append(acc.trades_records, t.record),
                  exits          |-> Append(acc.exits, <<ents[i], t.exit>>)])

\* accuracy = (hits / total_trades) * 100
Accuracy(h, t) == Mul100(TrueDiv(h, t))

\* accuracy >= min_accuracy
Accepts(h, t, min_accuracy) == FloatGeqInt(Accuracy(h, t), min_accuracy)

ResultRow(f, s, g, t, h) ==
    [FastEMA |-> f, SlowEMA |-> s, SignalEMA |-> g,
     Trades |-> t, Hits |-> h, Accuracy |-> Round2(Accuracy(h, t))]

\* trades_dict[key] = log
DictSet(dict, key, log) ==
    [k \in DOMAIN dict \cup {key} |-> IF k = key THEN log ELSE dict[k]]

\* lines 222-234: score the combination and keep it if it passes
Score(rs, dict, f, s, g, t, h, records, min_accuracy) ==
    IF Accepts(h, t, min_accuracy)
    THEN [results     |-> Append(rs, ResultRow(f, s, g, t, h)),
          trades_dict |-> DictSet(dict, <<f, s, g>>, records)]
    ELSE [results |-> rs, trades_dict |-> dict]

\* the pair the two outer loops reach after (f, s)
NextPair(p, f, s) == IF s < p.slow_max THEN <<f, s + 1>> ELSE <<f + 1, p.slow_min>>

\* the triple the three loops reach after the body ran for (f, s, g)
NextTriple(p, f, s, g) ==
    IF g < p.signal_max THEN <<f, s, g + 1>>
    ELSE <<NextPair(p, f, s)[1], NextPair(p, f, s)[2], p.signal_min>>

IsSortedDescending(rs) ==
    \A i, j \in DOMAIN rs : i < j => rs[i].Accuracy >= rs[j].Accuracy

\* sort_values("Accuracy%", ascending=False) with the default kind="quicksort",
\* which is not a stable sort: every descending arrangement of the rows
sort_values(rs) ==
    {[i \in DOMAIN rs |-> rs[perm[i]]] :
        perm \in {q \in [DOMAIN rs -> DOMAIN rs] :
                    /\ \A i, j \in DOMAIN rs : i # j => q[i] # q[j]
                    /\ IsSortedDescending([i \in DOMAIN rs |-> rs[q[i]]])}}

head(rs, n) == SubSeq(rs, 1, Min(n, Len(rs)))

Keys(rs) == {<<rs[i].FastEMA, rs[i].SlowEMA, rs[i].SignalEMA>> : i \in DOMAIN rs}

\* {k: v for k, v in trades_dict.items() if k in top10_keys}
FilterDict(dict, keys) == [k \in DOMAIN dict \cap keys |-> dict[k]]

----------------------------------------------------------------------------
(* Inputs.                                                                 *)

\* dates of consecutive trading days, weekends skipped
Calendar(n) == [i \in 0..(n - 1) |-> i + 2 * (i \div 5)]

Tables(n, prices) == {[Date |-> Calendar(n), Close |-> c] : c \in [0..(n - 1) -> prices]}

Grid(fmin, fmax, smin, smax, gmin, gmax) ==
    [fast_min |-> fmin, fast_max |-> fmax, slow_min |-> smin, slow_max |-> smax,
     signal_min |-> gmin, signal_max |-> gmax]

Inputs(grids, targets, days, trades, accuracies) ==
    {[fast_min |-> g.fast_min, fast_max |-> g.fast_max,
      slow_min |-> g.slow_min, slow_max |-> g.slow_max,
      signal_min |-> g.signal_min, signal_max |-> g.signal_max,
      target_pct |-> tp, max_days |-> md, min_trades |-> mt, min_accuracy |-> ma] :
        g \in grids, tp \in targets, md \in days, mt \in trades, ma \in accuracies}

\* the limits the number_input widgets enforce
WidgetsAllow(d, p) ==
    /\ {p.fast_min, p.fast_max} \subseteq FastLo..FastHi
    /\ {p.slow_min, p.slow_max} \subseteq SlowLo..SlowHi
    /\ {p.signal_min, p.signal_max} \subseteq SignalLo..SignalHi
    /\ p.target_pct \in TargetLo..TargetHi
    /\ p.max_days \in 1..len(d)
    /\ p.min_trades \in TradesLo..TradesHi
    /\ p.min_accuracy \in AccuracyLo..AccuracyHi

NoProgress == [bar |-> <<0, 1>>, checked |-> 0, remaining |-> 0]

NoFrame == [MACD |-> <<>>, Signal |-> <<>>, Crossover |-> <<>>]

\* the state when the widgets have their values and nothing has run
InitWith(tables, inputs) ==
    /\ data \in tables
    /\ inp \in inputs
    /\ WidgetsAllow(data, inp)
    /\ pc = "estimate"
    /\ ui = {}
    /\ total_combinations = 0
    /\ fast = 0 /\ slow = 0 /\ signal = 0
    /\ combos_checked = 0
    /\ progress = NoProgress
    /\ df = NoFrame
    /\ entries = <<>> /\ total_trades = 0 /\ hits = 0
    /\ trades_records = <<>> /\ exits = <<>>
    /\ accuracy = Accuracy(0, 1)
    /\ results = <<>> /\ trades_dict = <<>>
    /\ top10 = <<>> /\ top10_trades_dict = <<>>
    /\ attempted = <<>> /\ macd_computed = <<>>
    /\ cancel_requested = FALSE

----------------------------------------------------------------------------
(* The steps of the script.                                                *)

\* Estimate without the st.stop() on an empty grid
EstimateWithoutStop ==
    /\ pc = "estimate"
    /\ total_combinations' = CountCombinations(inp)
    /\ ui' = ui \cup {"info_combinations", EstimateUnit(total_combinations')}
    /\ pc' = "ready"
    /\ UNCHANGED <<data, inp, fast, slow, signal, combos_checked, progress, df,
                   entries, total_trades, hits, trades_records, accuracy, exits,
                   results, trades_dict, top10, top10_trades_dict, attempted,
                   macd_computed, cancel_requested>>

\* lines 95-116: count the combinations, stop the script on an empty grid
Estimate ==
    /\ pc = "estimate"
    /\ total_combinations' = CountCombinations(inp)
    /\ IF total_combinations' = 0
       THEN /\ ui' = ui \cup {"info_combinations", "error_invalid_ranges"}
            /\ pc' = "stopped"
       ELSE /\ ui' = ui \cup {"info_combinations", EstimateUnit(total_combinations')}
            /\ pc' = "ready"
    /\ UNCHANGED <<data, inp, fast, slow, signal, combos_checked, progress, df,
                   entries, total_trades, hits, trades_records, accuracy, exits,
                   results, trades_dict, top10, top10_trades_dict, attempted,
                   macd_computed, cancel_requested>>

\* lines 121-136: the button is pressed, the loops start
RunOptimization ==
    /\ pc = "ready"
    /\ results' = <<>>
    /\ trades_dict' = <<>>
    /\ progress' = [bar |-> <<0, 1>>, checked |-> 0, remaining |-> 0]
    /\ ui' = ui \cup {"progress_bar", "spinner"}
    /\ combos_checked' = 0
    /\ fast' = inp.fast_min /\ slow' = inp.slow_min /\ signal' = inp.signal_min
    /\ pc' = "scan"
    /\ UNCHANGED <<data, inp, total_combinations, df, entries, total_trades, hits,
                   trades_records, accuracy, exits, top10, top10_trades_dict,
                   attempted, macd_computed, cancel_requested>>

\* SkipPair with `break` for `continue`: the rest of the slow loop is lost
SkipPairBreak ==
    /\ pc = "scan"
    /\ fast <= inp.fast_max
    /\ fast >= slow
    /\ fast' = fast + 1
    /\ slow' = inp.slow_min
    /\ UNCHANGED <<data, inp, pc, ui, total_combinations, signal, combos_checked,
                   progress, df, entries, total_trades, hits, trades_records,
                   accuracy, exits, results, trades_dict, top10,
                   top10_trades_dict, attempted, macd_computed, cancel_requested>>

\* lines 138-139: `if fast >= slow: continue`
SkipPair ==
    /\ pc = "scan"
    /\ fast <= inp.fast_max
    /\ fast >= slow
    /\ fast' = NextPair(inp, fast, slow)[1]
    /\ slow' = NextPair(inp, fast, slow)[2]
    /\ UNCHANGED <<data, inp, pc, ui, total_combinations, signal, combos_checked,
                   progress, df, entries, total_trades, hits, trades_records,
                   accuracy, exits, results, trades_dict, top10,
                   top10_trades_dict, attempted, macd_computed, cancel_requested>>

\* lines 141-154: count the combination and show the progress
Progress(checked, total) ==
    [bar       |-> IF total > 0
                   THEN (IF checked > total THEN <<1, 1>> ELSE <<checked, total>>)
                   ELSE <<0, 1>>,
     checked   |-> checked,
     remaining |-> total - checked]

\* lines 140-234: the body of the signal loop for (fast, slow, signal), with
\* the MACD and signal lines the two library calls return
Evaluate(macd_line, signal_line) ==
    LET cross == Crossover(macd_line, signal_line)
        ents  == CrossoverIndex(cross)
        n     == Len(ents)
        loop  == TradeLoop(data, inp, ents, 1,
                           [hits |-> 0, trades_records |-> <<>>, exits |-> <<>>])
        kept  == Score(results, trades_dict, fast, slow, signal, n, loop.hits,
                       loop.trades_records, inp.min_accuracy)
        next  == NextTriple(inp, fast, slow, signal)
    IN  /\ combos_checked' = combos_checked + 1
        /\ progress' = Progress(combos_checked', total_combinations)
        /\ attempted' = Append(attempted, <<fast, slow, signal>>)
        /\ macd_computed' = Append(macd_computed, <<fast, slow>>)
        /\ df' = [MACD |-> macd_line, Signal |-> signal_line, Crossover |-> cross]
        /\ entries' = ents
        /\ total_trades' = n
        /\ IF n < inp.min_trades
           THEN UNCHANGED <<hits, trades_records, exits, accuracy, results, trades_dict>>
           ELSE /\ hits' = loop.hits
                /\ trades_records' = loop.trades_records
                /\ exits' = loop.exits
                /\ accuracy' = Accuracy(loop.hits, n)
                /\ results' = kept.results
                /\ trades_dict' = kept.trades_dict
        /\ fast' = next[1] /\ slow' = next[2] /\ signal' = next[3]
        /\ UNCHANGED <<data, inp, pc, ui, total_combinations, top10,
                       top10_trades_dict, cancel_requested>>

CombinationWith(macd_values, signal_values) ==
    /\ pc = "scan"
    /\ fast <= inp.fast_max
    /\ fast < slow
    /\ \E macd_line \in [Bars(data) -> macd_values],
          signal_line \in [Bars(data) -> signal_values] :
            Evaluate(macd_line, signal_line)

\* every set of crossover rows arises from these values
Combination == CombinationWith({{0}, {2}}, {{1}})

\* undefined, equal and unequal values at every row
CombinationAnyValues == CombinationWith({NaN, {0}, {1}}, {NaN, {0}, {1}})

\* lines 236-239: the loops are exhausted
EndScan ==
    /\ pc = "scan"
    /\ fast > inp.fast_max
    /\ progress' = [bar |-> <<1, 1>>, checked |-> total_combinations, remaining |-> 0]
    /\ pc' = "display"
    /\ UNCHANGED <<data, inp, ui, total_combinations, fast, slow, signal,
                   combos_checked, df, entries, total_trades, hits,
                   trades_records, accuracy, exits, results, trades_dict, top10,
                   top10_trades_dict, attempted, macd_computed, cancel_requested>>

\* lines 244-271, with download_results (lines 11-31)
DisplayResults ==
    /\ pc = "display"
    /\ IF results # <<>>
       THEN \E results_df \in sort_values(results) :
              /\ top10' = head(results_df, TopN)
              /\ top10_trades_dict' = FilterDict(trades_dict, Keys(top10'))
              /\ ui' = ui \cup {"success_found", "top10_table"} \cup
                       (IF DOMAIN top10_trades_dict' # {}
                        THEN {"download_button"} ELSE {"warning_no_trades"})
       ELSE /\ ui' = ui \cup {"warning_no_match"}
            /\ UNCHANGED <<top10, top10_trades_dict>>
    /\ pc' = "done"
    /\ UNCHANGED <<data, inp, total_combinations, fast, slow, signal,
                   combos_checked, progress, df, entries, total_trades, hits,
                   trades_records, accuracy, exits, results, trades_dict,
                   attempted, macd_computed, cancel_requested>>

----------------------------------------------------------------------------
(* The optimization run over small grids and price tables.                 *)

\* (9,10) (9,11) (10,10) (10,11): three combinations, one pair skipped
WideGrid == Grid(9, 10, 10, 11, 2, 2)

\* one pair with two signal values
TwoSignals == Grid(9, 9, 10, 10, 2, 3)

\* no fast < slow; fast_min > fast_max
EmptyGrids == {Grid(10, 10, 10, 10, 2, 2), Grid(10, 9, 10, 10, 2, 2)}

MainInputs ==
    Inputs({WideGrid}, {100}, {2}, {2}, {50})
        \cup Inputs({TwoSignals}, {100}, {1, 2}, {1, 2}, {50, 100})
        \cup Inputs(EmptyGrids, {100}, {2}, {1}, {50})

Init == InitWith(Tables(MaxBars, {1, 2}), MainInputs)

Next ==
    \/ Estimate
    \/ RunOptimization
    \/ SkipPair
    \/ Combination
    \/ EndScan
    \/ DisplayResults

Spec == Init /\ [][Next]_vars

\* the loops take their steps until they are exhausted
ScanStep == SkipPair \/ Combination \/ EndScan

\* (9,10) with two signal values, then (10,10) skipped
CancelGrid == Grid(9, 10, 10, 10, 2, 3)

\* grids with a skipped pair, several pairs and several signal values
ScanInputs ==
    Inputs({WideGrid, CancelGrid}, {100}, {2}, {2}, {50})
        \cup Inputs(EmptyGrids, {100}, {2}, {1}, {50})

InitScan == InitWith(Tables(MaxBars, {1, 2}), ScanInputs)

\* the loops block on nothing (time.sleep(0.001) returns), so a scan that
\* can take a step does take it
FairSpec == InitScan /\ [][Next]_vars /\ WF_vars(ScanStep)

----------------------------------------------------------------------------
(* Crossover detection over every value pattern of a three-row table.      *)

SkipGrid == Grid(9, 10, 10, 10, 2, 2)       \* (9,10), then (10,10) skipped

InitCross == InitWith(Tables(CrossBars, {1}),
                      Inputs({SkipGrid}, {100}, {1}, {1}, {50}))

NextCross ==
    \/ Estimate
    \/ RunOptimization
    \/ SkipPair
    \/ CombinationAnyValues
    \/ EndScan
    \/ DisplayResults

SpecCross == InitCross /\ [][NextCross]_vars

----------------------------------------------------------------------------
(* Tables with zero and negative closing prices.                           *)

InitNonPositive == InitWith(Tables(CrossBars, {-1, 0, 1}),
                            Inputs({SkipGrid}, {100}, {1, 2}, {1}, {50}))

SpecNonPositive == InitNonPositive /\ [][Next]_vars

----------------------------------------------------------------------------
(* The caller signals cancellation while the scan runs.                    *)

RequestCancel ==
    /\ pc = "scan"
    /\ ~cancel_requested
    /\ cancel_requested' = TRUE
    /\ UNCHANGED <<data, inp, pc, ui, total_combinations, fast, slow, signal,
                   combos_checked, progress, df, entries, total_trades, hits,
                   trades_records, accuracy, exits, results, trades_dict, top10,
                   top10_trades_dict, attempted, macd_computed>>

InitCancel == InitWith(Tables(CrossBars, {1, 2}),
                       Inputs({CancelGrid}, {100}, {1}, {1}, {50}))

NextCancel ==
    \/ Estimate
    \/ RunOptimization
    \/ SkipPair
    \/ Combination
    \/ EndScan
    \/ DisplayResults
    \/ RequestCancel

SpecCancel == InitCancel /\ [][NextCancel]_vars

----------------------------------------------------------------------------
(* Scoring of one combination with up to MaxTrades trades: the run is      *)
(* taken up after the trade loop of the only combination of the grid, on a *)
(* table whose odd rows are crossovers and of whose trades the first h hit *)
(* the target on the next row.                                             *)

ScoreTable(h, t) ==
    [Date  |-> Calendar(2 * t + 1),
     Close |-> [i \in 0..(2 * t) |->
                  IF i % 2 = 0 /\ i >= 2 /\ i \div 2 <= h THEN 2 ELSE 1]]

ZigZag(t) == [i \in 0..(2 * t) |-> IF i % 2 = 0 THEN {0} ELSE {2}]

Flat(t) == [i \in 0..(2 * t) |-> {1}]

OneGrid == Grid(9, 9, 10, 10, 2, 2)

\* min_accuracy is the widget's default or exactly the combination's accuracy
ScoreThresholds(h, t) == {40} \cup {m \in AccuracyLo..AccuracyHi : m * t = 100 * h}

InitScore ==
    \E t \in 1..MaxTrades : \E h \in 0..t :
        LET cross == Crossover(ZigZag(t), Flat(t))
            ents  == CrossoverIndex(cross)
            loop  == TradeLoop(ScoreTable(h, t),
                               CHOOSE p \in Inputs({OneGrid}, {100}, {1}, {1}, {40}) : TRUE,
                               ents, 1,
                               [hits |-> 0, trades_records |-> <<>>, exits |-> <<>>])
        IN  /\ data = ScoreTable(h, t)
            /\ inp \in Inputs({OneGrid}, {100}, {1}, {1}, ScoreThresholds(h, t))
            /\ WidgetsAllow(data, inp)
            /\ pc = "score"
            /\ ui = {"info_combinations", EstimateUnit(1), "progress_bar", "spinner"}
            /\ total_combinations = CountCombinations(inp)
            /\ fast = 9 /\ slow = 10 /\ signal = 2
            /\ combos_checked = 1
            /\ progress = Progress(1, 1)
            /\ df = [MACD |-> ZigZag(t), Signal |-> Flat(t), Crossover |-> cross]
            /\ entries = ents
            /\ total_trades = Len(ents)
            /\ hits = loop.hits
            /\ trades_records = loop.trades_records
            /\ exits = loop.exits
            /\ accuracy = Accuracy(0, 1)
            /\ results = <<>> /\ trades_dict = <<>>
            /\ top10 = <<>> /\ top10_trades_dict = <<>>
            /\ attempted = <<<<9, 10, 2>>>>
            /\ macd_computed = <<<<9, 10>>>>
            /\ cancel_requested = FALSE

\* lines 222-234, then the loops move on
ScoreStep ==
    /\ pc = "score"
    /\ accuracy' = Accuracy(hits, total_trades)
    /\ LET kept == Score(results, trades_dict, fast, slow, signal, total_trades,
                         hits, trades_records, inp.min_accuracy)
           next == NextTriple(inp, fast, slow, signal)
       IN  /\ results' = kept.results
           /\ trades_dict' = kept.trades_dict
           /\ fast' = next[1] /\ slow' = next[2] /\ signal' = next[3]
    /\ pc' = "scan"
    /\ UNCHANGED <<data, inp, ui, total_combinations, combos_checked, progress,
                   df, entries, total_trades, hits, trades_records, exits, top10,
                   top10_trades_dict, attempted, macd_computed, cancel_requested>>

NextScore ==
    \/ ScoreStep
    \/ EndScan
    \/ DisplayResults

SpecScore == InitScore /\ [][NextScore]_vars

----------------------------------------------------------------------------
(* Properties.                                                             *)

LastIndex == len(data) - 1

\* the forward window of an entry row
Window(e) == (e + 1)..Min(e + inp.max_days, LastIndex)

\* row j closes at or above the target of an entry at row e
ReachesTarget(e, j) == data.Close[j] * 100 >= data.Close[e] * (100 + inp.target_pct)

\* the trade log in trades_records belongs to the crossovers in entries
LogIsCurrent == total_trades >= inp.min_trades /\ pc \in {"scan", "display", "done"}

\* C1: the trade recorded for a crossover row e exits at the first row of
\* the window [e+1, min(e+max_days, last_index)] that closes at or above
\* close[e]*(1+target_pct/100), with Target Hit true; if no row of the window
\* does, at the last row of the window with Target Hit false; and if the
\* window is empty, at the entry row itself (same date and price) with Target
\* Hit false. One trade is recorded per crossover row, in order.
C1_ExitIsFirstHitOrHorizon ==
    /\ Len(exits) = Len(trades_records)
    /\ LogIsCurrent => /\ Len(trades_records) = Len(entries)
                       /\ \A k \in DOMAIN entries : exits[k][1] = entries[k]
    /\ \A k \in DOMAIN trades_records :
        LET e == exits[k][1]
            x == exits[k][2]
            r == trades_records[k]
        IN  /\ r.entry_date = data.Date[e] /\ r.entry_price = data.Close[e]
            /\ r.exit_date = data.Date[x] /\ r.exit_price = data.Close[x]
            /\ IF \E j \in Window(e) : ReachesTarget(e, j)
               THEN /\ x \in Window(e)
                    /\ ReachesTarget(e, x)
                    /\ \A j \in Window(e) : j < x => ~ReachesTarget(e, j)
                    /\ r.target_hit
               ELSE IF Window(e) # {}
               THEN x = Min(e + inp.max_days, LastIndex) /\ ~r.target_hit
               ELSE /\ x = e /\ e = LastIndex /\ ~r.target_hit
                    /\ r.exit_date = r.entry_date /\ r.exit_price = r.entry_price

\* C1 witness: one log holds a trade that hit on the second row of its
\* window after a first row below the target, and a trade entered on the
\* last row
C1_Witness ==
    /\ LogIsCurrent
    /\ \E k \in DOMAIN trades_records :
         /\ exits[k][2] = exits[k][1] + 2
         /\ trades_records[k].target_hit
    /\ \E k \in DOMAIN trades_records :
         /\ exits[k][1] = LastIndex
         /\ exits[k][2] = LastIndex
         /\ ~trades_records[k].target_hit

\* C1 witness of the forced exit: a two-row window never reached the target
C1_WitnessHorizon ==
    /\ LogIsCurrent
    /\ \E k \in DOMAIN trades_records :
         /\ exits[k][2] = exits[k][1] + 2
         /\ ~trades_records[k].target_hit

IsNumber(cell) == cell # NaN

NumberOf(cell) == CHOOSE v \in cell : TRUE

\* macd[i-1] < signal[i-1] and macd[i] > signal[i], all four values defined
StrictCross(i) ==
    /\ i >= 1
    /\ IsNumber(df.MACD[i - 1]) /\ IsNumber(df.Signal[i - 1])
    /\ IsNumber(df.MACD[i]) /\ IsNumber(df.Signal[i])
    /\ NumberOf(df.MACD[i - 1]) < NumberOf(df.Signal[i - 1])
    /\ NumberOf(df.MACD[i]) > NumberOf(df.Signal[i])

\* C2: the entries are exactly the rows i >= 1 with macd[i-1] < signal[i-1]
\* and macd[i] > signal[i]: never row 0, never a row where macd equals signal
\* at i-1 or at i, never a row where a compared value is NaN; and they come in
\* ascending row order.
C2_EntriesAreStrictCrossovers ==
    /\ {entries[k] : k \in DOMAIN entries} = {i \in DOMAIN df.MACD : StrictCross(i)}
    /\ \A k \in DOMAIN entries :
        LET i == entries[k]
        IN  /\ i # 0
            /\ df.MACD[i] # df.Signal[i]
            /\ df.MACD[i - 1] # df.Signal[i - 1]
            /\ NaN \notin {df.MACD[i], df.Signal[i], df.MACD[i - 1], df.Signal[i - 1]}
    /\ \A k, l \in DOMAIN entries : k < l => entries[k] < entries[l]

\* C2 witness: row 2 is the only entry of a table whose row 0 is undefined
\* and whose row 1 has macd above signal after an undefined row
C2_Witness ==
    /\ entries = <<2>>
    /\ df.MACD[0] = NaN
    /\ df.Signal[0] = NaN
    /\ df.MACD[1] = {0} /\ df.Signal[1] = {1}

\* C2 witness of the non-strict crossing: macd equals signal on row 0 and is
\* above it on row 1, and row 1 is no entry
C2_WitnessEqual ==
    /\ pc = "done"
    /\ df.MACD[0] = {0} /\ df.Signal[0] = {0}
    /\ df.MACD[1] = {1} /\ df.Signal[1] = {0}
    /\ entries = <<>>

\* the grid holds no triple with fast < slow
NoValidTriple ==
    ~\E f \in inp.fast_min..inp.fast_max, s \in inp.slow_min..inp.slow_max,
        g \in inp.signal_min..inp.signal_max : f < s

\* C5: if the ranges yield no valid combination, the invalid-grid error is
\* shown and the run stops before any combination is evaluated: no indicator
\* is computed, no combination is attempted or counted, and no result
\* collection is created or shown.
C5_EmptyGridStopsBeforeScan ==
    (NoValidTriple /\ pc # "estimate") =>
        /\ pc = "stopped"
        /\ "error_invalid_ranges" \in ui
        /\ total_combinations = 0
        /\ combos_checked = 0
        /\ attempted = <<>>
        /\ macd_computed = <<>>
        /\ df = NoFrame
        /\ results = <<>> /\ trades_dict = <<>> /\ top10 = <<>>
        /\ ui \cap {"progress_bar", "top10_table", "warning_no_match",
                    "download_button"} = {}

\* C5 witness: the run stopped on fast_min = fast_max = slow_min = slow_max
C5_Witness ==
    /\ pc = "stopped"
    /\ inp.fast_min = inp.fast_max
    /\ inp.fast_min >= inp.slow_max

\* C5 witness of the empty fast range: the run stopped on fast_min > fast_max
C5_WitnessEmptyRange == pc = "stopped" /\ inp.fast_min > inp.fast_max

\* lexicographic order of triples
LexLess(a, b) ==
    \/ a[1] < b[1]
    \/ a[1] = b[1] /\ a[2] < b[2]
    \/ a[1] = b[1] /\ a[2] = b[2] /\ a[3] < b[3]

ValidTriples ==
    {t \in (inp.fast_min..inp.fast_max) \X (inp.slow_min..inp.slow_max)
            \X (inp.signal_min..inp.signal_max) : t[1] < t[2]}

\* what holds of the attempts at every point of a run
AttemptsInOrder ==
    /\ \A k \in DOMAIN attempted : attempted[k] \in ValidTriples
    /\ \A k, l \in DOMAIN attempted : k < l => LexLess(attempted[k], attempted[l])
    /\ combos_checked = Len(attempted)
    /\ pc \in {"display", "done"} =>
        /\ {attempted[k] : k \in DOMAIN attempted} = ValidTriples
        /\ combos_checked = total_combinations
        /\ progress.checked = total_combinations
        /\ progress.remaining = 0

\* C7: a started scan attempts every triple of the grid with fast < slow
\* exactly once, in lexicographic order, and never one with fast >= slow; a
\* combination with no entries, too few trades, an empty forward window or too
\* low an accuracy excludes only itself; the scan ends with the attempted
\* counter equal to total_combinations and the remaining count 0.
C7_ScanAttemptsEveryTripleOnce ==
    /\ []AttemptsInOrder
    /\ (pc = "scan") ~> (pc = "display")

\* C7 witness: a scan over three combinations ended with the second one
\* rejected for too few trades and the third one accepted
C7_Witness ==
    /\ pc = "display"
    /\ Len(attempted) = 3
    /\ attempted[3] = <<10, 11, 2>>
    /\ Keys(results) = {<<9, 10, 2>>, <<10, 11, 2>>}

KeyOf(r) == <<r.FastEMA, r.SlowEMA, r.SignalEMA>>

HitCount(log) == Cardinality({k \in DOMAIN log : log[k].target_hit})

\* what C3 says of the counts of a result row: Hits is the number of logged
\* trades that hit, Trades the number of logged trades and of crossovers
CountsMatchLog(r) ==
    /\ KeyOf(r) \in DOMAIN trades_dict
    /\ r.Hits = HitCount(trades_dict[KeyOf(r)])
    /\ r.Trades = Len(trades_dict[KeyOf(r)])
    /\ r.Trades = Cardinality({i \in DOMAIN df.MACD : StrictCross(i)})

\* C3 as amended: for every collected result the stored accuracy is
\* 100 * Hits / Trades rounded to two decimals (within 0.005 of it, and equal
\* to it whenever it has at most two decimals), Hits is the number of logged
\* trades with Target Hit true, and Trades is the number of logged trades,
\* which is the number of detected crossovers.
C3_AccuracyIsRoundedRatio ==
    \A i \in DOMAIN results :
        LET r     == results[i]
            error == r.Accuracy * r.Trades - 10000 * r.Hits
        IN  /\ CountsMatchLog(r)
            /\ 2 * error <= r.Trades /\ -2 * error <= r.Trades
            /\ (10000 * r.Hits) % r.Trades = 0 => error = 0

\* C3 as stated: the stored accuracy equals 100 * Hits / Trades exactly.
C3_AccuracyIsExactRatio ==
    \A i \in DOMAIN results :
        /\ CountsMatchLog(results[i])
        /\ results[i].Accuracy * results[i].Trades = 10000 * results[i].Hits

\* C3 witness: a result of three trades, two hits and one forced exit, is
\* stored with accuracy 66.67
C3_Witness ==
    \E i \in DOMAIN results :
        /\ results[i].Trades = 3 /\ results[i].Hits = 2
        /\ results[i].Accuracy = 6667
        /\ \E k \in DOMAIN trades_dict[KeyOf(results[i])] :
             ~trades_dict[KeyOf(results[i])][k].target_hit

\* C4: once the only combination is scored, it is among the results if and
\* only if it has at least min_trades trades and 100 * hits / trades is at
\* least min_accuracy; every collected result meets both thresholds and has
\* its trade log stored under its key.
C4_ResultsAreExactlyThePassingCombinations ==
    pc # "score" =>
        /\ (<<9, 10, 2>> \in Keys(results)) <=>
              /\ total_trades >= inp.min_trades
              /\ 100 * hits >= inp.min_accuracy * total_trades
        /\ \A i \in DOMAIN results :
              /\ results[i].Trades >= inp.min_trades
              /\ 100 * results[i].Hits >= inp.min_accuracy * results[i].Trades
              /\ KeyOf(results[i]) \in DOMAIN trades_dict

\* C6: the table shown is the collected results by accuracy descending, ties
\* in lexicographic (fast, slow, signal) order, cut to the first 10, and the
\* exported logs are those of the rows shown.
C6_RankingBreaksTiesByEnumerationOrder ==
    (pc = "done" /\ results # <<>>) =>
        /\ Len(top10) = Min(TopN, Len(results))
        /\ \A i \in DOMAIN top10 : \E j \in DOMAIN results : top10[i] = results[j]
        /\ \A i, j \in DOMAIN top10 : i < j =>
              \/ top10[i].Accuracy > top10[j].Accuracy
              \/ /\ top10[i].Accuracy = top10[j].Accuracy
                 /\ LexLess(KeyOf(top10[i]), KeyOf(top10[j]))
        /\ \A j \in DOMAIN results :
              (\A i \in DOMAIN top10 : top10[i] # results[j]) =>
                  \A i \in DOMAIN top10 : top10[i].Accuracy >= results[j].Accuracy
        /\ top10_trades_dict = FilterDict(trades_dict, Keys(top10))

\* C8: once cancellation is signalled, no further combination is attempted.
C8_CancelStopsBeforeNextCombination ==
    [][cancel_requested => attempted' = attempted]_vars

\* C9: a trade entered at a price <= 0 is recorded as a non-hit.
C9_NonPositiveEntryNeverHits ==
    \A k \in DOMAIN trades_records :
        trades_records[k].entry_price <= 0 => ~trades_records[k].target_hit

\* C10: in one run the fast and the slow EMA are computed once for each
\* (fast, slow) pair with fast < slow, however many signal values are tried.
C10_EmaComputedOncePerPair ==
    /\ \A k, l \in DOMAIN macd_computed :
          k # l => macd_computed[k] # macd_computed[l]
    /\ pc \in {"display", "done"} =>
          Len(macd_computed) =
              Cardinality({<<t[1], t[2]>> : t \in ValidTriples})

====
